---- MODULE Spec2Model ----
(***************************************************************************)
(* A model of crafty_client.CraftyWeb (src/crafty_client/craftyweb.py):    *)
(* the client's configuration, the request primitive _make_request with    *)
(* its error translation _check_errors, and the public operations built on *)
(* them.  One call of a public operation is one action; the panel's answer *)
(* to each request the call issues is an input of the action.              *)
(***************************************************************************)
EXTENDS Integers, Sequences, FiniteSets, TLC

VARIABLES url, token, verify_ssl, headers, call

vars == <<url, token, verify_ssl, headers, call>>

(***************************************************************************)
(* Bounds of the model.                                                    *)
(***************************************************************************)
MaxId == 2
MaxLen == 2

(***************************************************************************)
(* Python values, tagged with their type.                                  *)
(***************************************************************************)
None_ == [t |-> "none"]
Str(s) == [t |-> "str", s |-> s]
IntV(i) == [t |-> "int", i |-> i]
Bool(b) == [t |-> "bool", b |-> b]
Bytes(s) == [t |-> "bytes", y |-> s]
List(q) == [t |-> "list", l |-> q]
Dict(f) == [t |-> "dict", d |-> f]
EmptyDict == Dict(<<>>)

\* A key that a JSON object does not have.
Missing == [t |-> "missing"]

\* isinstance(x, (int, str)); bool is a subclass of int.
IsIntOrStr(x) == x.t \in {"int", "bool", "str"}
IsStr(x) == x.t = "str"
\* isinstance(x, int)
IsInt(x) == x.t \in {"int", "bool"}
IsBool(x) == x.t = "bool"
IsList(x) == x.t = "list"
IsDict(x) == x.t = "dict"

\* Python truth value of x.
Truthy(x) ==
    CASE x.t = "none" -> FALSE
      [] x.t = "str" -> x.s # ""
      [] x.t = "bytes" -> x.y # ""
      [] x.t = "int" -> x.i # 0
      [] x.t = "bool" -> x.b
      [] x.t = "list" -> x.l # <<>>
      [] x.t = "dict" -> DOMAIN x.d # {}
      [] OTHER -> TRUE

\* x if x is not None else y
PyOr_NoneOnly(x, y) == IF x # None_ THEN x ELSE y

\* x or y
PyOr(x, y) == IF Truthy(x) THEN x ELSE y

Digits == <<"0", "1", "2", "3", "4", "5", "6", "7", "8", "9">>

RECURSIVE NatToStr(_)
NatToStr(n) ==
    IF n < 10 THEN Digits[n + 1] ELSE NatToStr(n \div 10) \o Digits[(n % 10) + 1]

\* str(n) of an int n.
IntToStr(n) == IF n < 0 THEN "-" \o NatToStr(0 - n) ELSE NatToStr(n)

RECURSIVE JoinStr(_, _)
\* sep.join(q) of a sequence of TLA+ strings.
JoinStr(q, sep) ==
    IF q = <<>> THEN ""
    ELSE IF Len(q) = 1 THEN q[1]
    ELSE q[1] \o sep \o JoinStr(Tail(q), sep)

RECURSIVE PyStr(_)
\* str(x), which is also how an f-string renders x.
PyStr(x) ==
    CASE x.t = "str" -> x.s
      [] x.t = "int" -> IntToStr(x.i)
      [] x.t = "bool" -> IF x.b THEN "True" ELSE "False"
      [] x.t = "none" -> "None"
      [] x.t = "list" -> "[" \o JoinStr([i \in 1..Len(x.l) |-> PyStr(x.l[i])], ", ") \o "]"
      [] OTHER -> "<" \o x.t \o ">"

(***************************************************************************)
(* Outcomes of a call: a returned value or a raised exception.             *)
(***************************************************************************)
NoArg == [t |-> "noarg"]
Return(v) == [k |-> "return", val |-> v]
\* detail: the argument handed to the exception's constructor, NoArg if none.
Raise(exc, detail) == [k |-> "raise", exc |-> exc, detail |-> detail]
Pass == [k |-> "pass"]
Raised(o) == o.k = "raise"

(***************************************************************************)
(* static/routes.py                                                        *)
(***************************************************************************)
BASE_URL == "/api/v2"
ROLES_URL == BASE_URL \o "/roles"
SERVERS_URL == BASE_URL \o "/servers"
USERS_URL == BASE_URL \o "/users"
AUTH_URL == BASE_URL \o "/auth"
LOGIN_URL == AUTH_URL \o "/login"
SCHEMA_URL == BASE_URL \o "/jsonschema"

(***************************************************************************)
(* The client object.                                                      *)
(***************************************************************************)
\* The header mapping __init__ builds for a token.
InitHeaders(tok) ==
    Dict(("Authorization" :> Str("Bearer " \o tok)) @@ ("Content-Type" :> Str("application/json")))

self == [url |-> url, token |-> token, verify_ssl |-> verify_ssl, headers |-> headers]

\* urljoin(base, route) for a route that is an absolute path: the base's
\* scheme and host are kept, its path is replaced.
urljoin(base, route) == base.origin \o route

(***************************************************************************)
(* The panel's answer to one requests.request call: the call raises        *)
(* (transport_error), the body is not JSON (not_json), or a JSON object.   *)
(***************************************************************************)
TransportError == [t |-> "transport_error"]
NotJson == [t |-> "not_json"]
Json(body) == [t |-> "json", body |-> body]

BodyKeys == {"status", "data", "error", "info", "error_data"}

\* The JSON object with the given members; a Missing member is left out.
Body(st, da, er, inf, ed) ==
    LET full == [k \in BodyKeys |->
                    CASE k = "status" -> st
                      [] k = "data" -> da
                      [] k = "error" -> er
                      [] k = "info" -> inf
                      [] k = "error_data" -> ed]
    IN [k \in {j \in BodyKeys : full[j] # Missing} |-> full[k]]

\* dict.get(k, None)
Get(d, k) == IF k \in DOMAIN d THEN d[k] ELSE None_

(***************************************************************************)
(* _check_errors                                                           *)
(***************************************************************************)
\* Lines 18-38 without the NOT_FOUND branch (lines 34-35).
check_errors_NoNotFound(response_dict) ==
    LET e == response_dict.error IN
    CASE e = Str("INCORRECT_CREDENTIALS") -> Raise("IncorrectCredentials", NoArg)
      [] e = Str("SER_NOT_RUNNING") -> Raise("ServerNotRunning", NoArg)
      [] e = Str("NO_COMMAND") ->
            Raise("MissingParameters",
                  Str("Your request is missing essential parameters or they are invalid"))
      [] e = Str("SER_RUNNING") -> Raise("ServerAlreadyRunning", NoArg)
      [] e = Str("NOT_AUTHORIZED") -> Raise("AccessDenied", NoArg)
      [] e = Str("ACCESS_DENIED") -> Raise("AccessDenied", response_dict.info)
      [] e = Str("NOT_ALLOWED") -> Raise("NotAllowed", response_dict.info)
      [] OTHER -> Pass

check_errors(response_dict) ==
    LET e == response_dict.error IN
    CASE e = Str("INCORRECT_CREDENTIALS") -> Raise("IncorrectCredentials", NoArg)
      [] e = Str("SER_NOT_RUNNING") -> Raise("ServerNotRunning", NoArg)
      [] e = Str("NO_COMMAND") ->
            Raise("MissingParameters",
                  Str("Your request is missing essential parameters or they are invalid"))
      [] e = Str("SER_RUNNING") -> Raise("ServerAlreadyRunning", NoArg)
      [] e = Str("NOT_AUTHORIZED") -> Raise("AccessDenied", NoArg)
      [] e = Str("ACCESS_DENIED") -> Raise("AccessDenied", response_dict.info)
      [] e = Str("NOT_ALLOWED") -> Raise("NotAllowed", response_dict.info)
      [] e = Str("NOT_FOUND") -> Raise("ServerNotFound", response_dict.info)
      [] OTHER -> Pass

(***************************************************************************)
(* _make_request: the request handed to requests.request, and the outcome. *)
(***************************************************************************)
Request(me, method, api_route, params, data) ==
    [method |-> method, endpoint |-> urljoin(me.url, api_route), verify |-> me.verify_ssl,
     headers |-> me.headers, params |-> params, json |-> data]

\* Line 52 without the fallback to error_data.
Envelope_InfoOnly(body) ==
    [status |-> Get(body, "status"), data |-> Get(body, "data"),
     error |-> Get(body, "error"), info |-> Get(body, "info")]

\* Lines 49-52: the envelope taken from the body.
Envelope(body) ==
    [status |-> Get(body, "status"), data |-> Get(body, "data"),
     error |-> Get(body, "error"),
     info |-> PyOr(Get(body, "info"), Get(body, "error_data"))]

make_request(me, method, api_route, params, data, reply) ==
    [req |-> Request(me, method, api_route, params, data),
     out |-> CASE reply.t = "transport_error" -> Raise("RequestException", NoArg)
               [] reply.t = "not_json" -> Raise("JSONDecodeError", NoArg)
               [] OTHER ->
                    LET e == Envelope(reply.body)
                        c == check_errors(e)
                    IN IF Raised(c) THEN c ELSE Return(e)]

(***************************************************************************)
(* What one call of a public operation did: the requests it handed to      *)
(* requests.request, in order, and how it ended.                           *)
(***************************************************************************)
NoReq(out) == [reqs |-> <<>>, out |-> out]
\* return self._make_request(...)
Whole(mr) == [reqs |-> <<mr.req>>, out |-> mr.out]
\* return self._make_request(...)['data']
DataOf(mr) ==
    [reqs |-> <<mr.req>>,
     out |-> IF Raised(mr.out) THEN mr.out ELSE Return(mr.out.val.data)]

\* raise TypeError(f'Expected "{name}" to be of type int or str, ...')
IdTypeError(name) == Raise("TypeError", Str(name))

(***************************************************************************)
(* get_token.  readable: whether open(password_path, 'rb') succeeds.       *)
(* The result also carries the header mapping the call leaves behind.      *)
(***************************************************************************)
FileContent == Bytes("filepw")

\* Line 79 with "or" for "and".
missing_password_Or(pw, password_path) == pw = None_ \/ password_path = None_

\* Line 79, after lines 76-78 replaced the password by the file's content.
missing_password(pw, password_path) == pw = None_ /\ password_path = None_

\* Lines 89-99, with the whole data returned instead of its token.
token_of_WholeData(response) ==
    IF response.data # None_ THEN Return(response.data)
    ELSE IF response.error = Str("INCORRECT_CREDENTIALS")
    THEN Raise("IncorrectCredentials", Str("Incorrect username or password. Please try again."))
    ELSE Raise("Exception", Str("Debug This"))

\* Lines 89-99: what get_token makes of the envelope _make_request returned.
token_of(response) ==
    LET d == response.data IN
    IF d # None_
    THEN \* response['data']['token']
         IF IsDict(d)
         THEN IF "token" \in DOMAIN d.d
              THEN Return(d.d["token"])
              ELSE Raise("KeyError", Str("token"))
         ELSE \* a str, list or number: the TypeError's text never names NoneType
              Raise("TypeError", Str(d.t))
    ELSE IF response.error = Str("INCORRECT_CREDENTIALS")
    THEN Raise("IncorrectCredentials", Str("Incorrect username or password. Please try again."))
    ELSE Raise("Exception", Str("Debug This"))

\* Lines 74-99 with line 74 moved to just before the request of line 87:
\* a call that raises before its request leaves the headers as they were.
get_token_ClearsBeforeRequest(me, username, password, password_path, readable, reply) ==
    LET me2 == [me EXCEPT !.headers = None_]
        pw == IF Truthy(password_path) THEN FileContent ELSE password
        data == Dict(("username" :> username) @@ ("password" :> pw))
        mr == make_request(me2, "POST", LOGIN_URL, None_, data, reply)
        r == IF Truthy(password_path) /\ ~readable
                THEN NoReq(Raise("OSError", password_path))
             ELSE IF missing_password(pw, password_path)
                THEN NoReq(Raise("ValueError",
                        Str("Must either have a password or path to the file where a password is saved")))
             ELSE IF Raised(mr.out) THEN Whole(mr)
             ELSE [reqs |-> <<mr.req>>, out |-> token_of(mr.out.val)]
    IN [reqs |-> r.reqs, out |-> r.out,
        headers |-> IF r.reqs = <<>> THEN me.headers ELSE None_]

get_token(me, username, password, password_path, readable, reply) ==
    LET \* line 74: self.headers = None
        me2 == [me EXCEPT !.headers = None_]
        \* lines 76-78
        pw == IF Truthy(password_path) THEN FileContent ELSE password
        data == Dict(("username" :> username) @@ ("password" :> pw))
        mr == make_request(me2, "POST", LOGIN_URL, None_, data, reply)
        r == IF Truthy(password_path) /\ ~readable
                THEN NoReq(Raise("OSError", password_path))
             ELSE IF missing_password(pw, password_path)
                THEN NoReq(Raise("ValueError",
                        Str("Must either have a password or path to the file where a password is saved")))
             ELSE IF Raised(mr.out) THEN Whole(mr)
             ELSE [reqs |-> <<mr.req>>, out |-> token_of(mr.out.val)]
    IN [reqs |-> r.reqs, out |-> r.out, headers |-> None_]

(***************************************************************************)
(* log_out                                                                 *)
(***************************************************************************)
log_out(me, reply) ==
    LET mr == make_request(me, "POST", AUTH_URL \o "/invalidate_tokens", None_, None_, reply)
        response == mr.out.val
        c == check_errors(response)
    IN IF Raised(mr.out) THEN Whole(mr)
       ELSE [reqs |-> <<mr.req>>,
             out |-> IF response.status = Str("ok") THEN Return(response)
                     ELSE IF response.status = Str("error")
                     THEN (IF Raised(c) THEN c ELSE Return(None_))
                     ELSE Raise("Exception", Str("Debug This"))]

(***************************************************************************)
(* Role operations                                                         *)
(***************************************************************************)
\* Lines 129-130 with a failure of the request swallowed: None is returned.
get_all_roles_SwallowsFailure(me, reply) ==
    LET mr == make_request(me, "GET", ROLES_URL, None_, None_, reply)
    IN [reqs |-> <<mr.req>>,
        out |-> IF Raised(mr.out) THEN Return(None_) ELSE Return(mr.out.val.data)]

get_all_roles(me, reply) ==
    DataOf(make_request(me, "GET", ROLES_URL, None_, None_, reply))

get_role(me, role_id, reply) ==
    IF ~IsIntOrStr(role_id) THEN NoReq(IdTypeError("role_id"))
    ELSE DataOf(make_request(me, "GET", ROLES_URL \o "/" \o PyStr(role_id), None_, None_, reply))

get_roles_servers(me, role_id, reply) ==
    IF ~IsIntOrStr(role_id) THEN NoReq(IdTypeError("role_id"))
    ELSE DataOf(make_request(me, "GET", ROLES_URL \o "/" \o PyStr(role_id) \o "/servers",
                             None_, None_, reply))

get_role_users(me, role_id, reply) ==
    IF ~IsIntOrStr(role_id) THEN NoReq(IdTypeError("role_id"))
    ELSE DataOf(make_request(me, "GET", ROLES_URL \o "/" \o PyStr(role_id) \o "/users",
                             None_, None_, reply))

delete_role(me, role_id, reply) ==
    IF ~IsIntOrStr(role_id) THEN NoReq(IdTypeError("role_id"))
    ELSE Whole(make_request(me, "DELETE", ROLES_URL \o "/" \o PyStr(role_id), None_, None_, reply))

\* int(x): [ok |-> TRUE, v |-> n], or the exception int() raises.
PyIntOf(x) ==
    CASE x.t = "int" -> [ok |-> TRUE, v |-> x.i]
      [] x.t = "bool" -> [ok |-> TRUE, v |-> IF x.b THEN 1 ELSE 0]
      [] x.t = "str" ->
            LET hits == {n \in 0..(10 * MaxId + 9) : NatToStr(n) = x.s}
            IN IF hits = {} THEN [ok |-> FALSE, exc |-> "ValueError"]
               ELSE [ok |-> TRUE, v |-> CHOOSE n \in hits : TRUE]
      [] OTHER -> [ok |-> FALSE, exc |-> "TypeError"]

\* len(x) of a list or str.
PyLen(x) == IF x.t = "list" THEN Len(x.l) ELSE Len(x.s)

\* x[0] whatever i is.
PyItem_First(x, i) == IF x.t = "list" THEN x.l[1] ELSE Str(SubSeq(x.s, 1, 1))

\* x[i] of a list or str, i counted from 0 and in range.
PyItem(x, i) == IF x.t = "list" THEN x.l[i + 1] ELSE Str(SubSeq(x.s, i + 1, i + 1))

\* Lines 150-163 without lines 150-151: a single id is not made a list.
create_role_NoWrap(me, name, server_ids, permissions, reply) ==
    LET ids == IF IsList(server_ids) THEN server_ids.l ELSE <<>>
        bad == {i \in 1..Len(ids) : ~PyIntOf(ids[i]).ok}
        first == CHOOSE i \in bad : \A j \in bad : i <= j
        servers == List([i \in 1..Len(ids) |->
                        Dict(("server_id" :> IntV(PyIntOf(ids[i]).v))
                             @@ ("permissions" :> Str(PyStr(permissions))))])
        data == Dict(("name" :> name) @@ ("servers" :> servers))
    IN IF ~IsList(server_ids)
       THEN NoReq(Raise("TypeError", Str("server_ids")))
       ELSE IF bad # {} THEN NoReq(Raise(PyIntOf(ids[first]).exc, ids[first]))
       ELSE Whole(make_request(me, "POST", ROLES_URL, None_, data, reply))

create_role(me, name, server_ids, permissions, reply) ==
    LET ids == IF IsIntOrStr(server_ids) THEN <<server_ids>> ELSE server_ids.l
        bad == {i \in 1..Len(ids) : ~PyIntOf(ids[i]).ok}
        first == CHOOSE i \in bad : \A j \in bad : i <= j
        servers == List([i \in 1..Len(ids) |->
                        Dict(("server_id" :> IntV(PyIntOf(ids[i]).v))
                             @@ ("permissions" :> Str(PyStr(permissions))))])
        data == Dict(("name" :> name) @@ ("servers" :> servers))
    IN IF ~IsIntOrStr(server_ids) /\ ~IsList(server_ids)
       THEN NoReq(Raise("TypeError", Str("server_ids")))
       ELSE IF bad # {} THEN NoReq(Raise(PyIntOf(ids[first]).exc, ids[first]))
       ELSE Whole(make_request(me, "POST", ROLES_URL, None_, data, reply))

\* Lines 260-283 without the comparison of the two lengths (lines 279-283).
modify_role_checks_NoLength(role_id, name, server_ids, permissions) ==
    IF ~IsIntOrStr(role_id) THEN IdTypeError("role_id")
    ELSE IF ~IsStr(name) /\ name # None_ THEN Raise("TypeError", Str("name"))
    ELSE IF (server_ids = None_) # (permissions = None_)
    THEN Raise("ValueError",
               Str("Both 'server_ids' and 'permissions' must be either provided or None."))
    ELSE IF server_ids = None_ THEN Pass
    ELSE IF ~IsInt(server_ids) /\ ~IsList(server_ids) THEN Raise("TypeError", Str("server_ids"))
    ELSE IF ~IsStr(permissions) /\ ~IsInt(permissions) /\ ~IsList(permissions)
    THEN Raise("TypeError", Str("permissions"))
    ELSE Pass

\* Lines 260-283: the exception the argument checks raise, or Pass.
modify_role_checks(role_id, name, server_ids, permissions) ==
    LET ids == IF IsInt(server_ids) THEN List(<<server_ids>>) ELSE server_ids IN
    IF ~IsIntOrStr(role_id) THEN IdTypeError("role_id")
    ELSE IF ~IsStr(name) /\ name # None_ THEN Raise("TypeError", Str("name"))
    ELSE IF (server_ids = None_) # (permissions = None_)
    THEN Raise("ValueError",
               Str("Both 'server_ids' and 'permissions' must be either provided or None."))
    ELSE IF server_ids = None_ THEN Pass
    ELSE IF ~IsInt(server_ids) /\ ~IsList(server_ids) THEN Raise("TypeError", Str("server_ids"))
    ELSE IF ~IsStr(permissions) /\ ~IsInt(permissions) /\ ~IsList(permissions)
    THEN Raise("TypeError", Str("permissions"))
    ELSE IF IsList(permissions) /\ PyLen(permissions) # PyLen(ids)
    THEN Raise("ValueError", Str("server_ids and permissions must have the same length"))
    ELSE Pass

modify_role(me, role_id, name, server_ids, permissions, reply) ==
    LET c == modify_role_checks(role_id, name, server_ids, permissions)
        \* lines 267-268
        ids == IF IsInt(server_ids) THEN List(<<server_ids>>) ELSE server_ids
        n == PyLen(ids)
        \* lines 272-275
        perms == IF IsStr(permissions) THEN List([i \in 1..n |-> permissions])
                 ELSE IF IsInt(permissions) THEN Str(PyStr(permissions))
                 ELSE permissions
        \* lines 289-293
        servers == List([i \in 1..n |->
                        Dict(("id" :> ids.l[i]) @@ ("permissions" :> PyItem(perms, i - 1)))])
        keys == (IF name # None_ THEN {"name"} ELSE {})
                    \cup (IF server_ids # None_ THEN {"servers"} ELSE {})
        data == Dict([k \in keys |-> IF k = "name" THEN name ELSE servers])
        url_ == ROLES_URL \o "/" \o PyStr(role_id)
    IN IF Raised(c) THEN NoReq(c)
       \* line 292: permissions[i] for an i past the end
       ELSE IF server_ids # None_ /\ PyLen(perms) < n
       THEN NoReq(Raise("IndexError", Str("index out of range")))
       ELSE Whole(make_request(me, "PATCH", url_, None_, data, reply))

(***************************************************************************)
(* Server operations                                                       *)
(***************************************************************************)
get_all_servers(me, reply) ==
    DataOf(make_request(me, "GET", SERVERS_URL, None_, None_, reply))

get_server(me, server_id, reply) ==
    IF ~IsIntOrStr(server_id) THEN NoReq(IdTypeError("server_id"))
    ELSE DataOf(make_request(me, "GET", SERVERS_URL \o "/" \o PyStr(server_id), None_, None_, reply))

delete_server(me, server_id, reply) ==
    IF ~IsIntOrStr(server_id) THEN NoReq(IdTypeError("server_id"))
    ELSE Whole(make_request(me, "DELETE", SERVERS_URL \o "/" \o PyStr(server_id), None_, None_, reply))

\* The list of lines 414-416 without its last entry.
valid_keys_Sixteen ==
    <<"server_name", "path", "backup_path", "executable", "log_path", "execution_command",
      "auto_start", "auto_start_delay", "crash_detection", "stop_command",
      "executable_update_url", "server_ip", "server_port", "logs_delete_after", "type",
      "show_status">>

valid_keys ==
    <<"server_name", "path", "backup_path", "executable", "log_path", "execution_command",
      "auto_start", "auto_start_delay", "crash_detection", "stop_command",
      "executable_update_url", "server_ip", "server_port", "logs_delete_after", "type",
      "show_status", "shutdown_timeout">>

modify_server(me, server_id, data, reply) ==
    LET kept == {valid_keys[i] : i \in 1..Len(valid_keys)} \cap DOMAIN data.d
        payload == Dict([k \in kept |-> data.d[k]])
    IN IF ~IsIntOrStr(server_id) THEN NoReq(IdTypeError("server_id"))
       ELSE Whole(make_request(me, "PATCH", SERVERS_URL \o "/" \o PyStr(server_id),
                               None_, payload, reply))

\* The list of lines 435-436 without its last entry.
valid_actions_Six ==
    <<"clone_server", "start_server", "stop_server", "restart_server", "kill_server",
      "backup_server">>

valid_actions ==
    <<"clone_server", "start_server", "stop_server", "restart_server", "kill_server",
      "backup_server", "update_executable">>

\* x in q, for a list q of str
InStrs(x, q) == \E i \in 1..Len(q) : x = Str(q[i])

send_server_action(me, server_id, action, reply) ==
    IF ~InStrs(action, valid_actions) THEN NoReq(Raise("ValueError", action))
    ELSE IF ~IsIntOrStr(server_id) THEN NoReq(IdTypeError("server_id"))
    ELSE Whole(make_request(me, "POST",
                SERVERS_URL \o "/" \o PyStr(server_id) \o "/action/" \o PyStr(action),
                None_, None_, reply))

STDIn_command(me, server_id, data, reply) ==
    IF ~IsIntOrStr(server_id) THEN NoReq(IdTypeError("server_id"))
    ELSE Whole(make_request(me, "POST", SERVERS_URL \o "/" \o PyStr(server_id) \o "/stdin",
                            None_, data, reply))

\* Line 479 without its "if v": every flag is listed, true or not.
LogFlags_Unfiltered(file, colors, raw, html) ==
    <<<<"file", file>>, <<"colors", colors>>, <<"raw", raw>>, <<"html", html>>>>

\* lines 479-481: the flags that are true, as key=value joined by &
LogFlags(file, colors, raw, html) ==
    LET all == <<<<"file", file>>, <<"colors", colors>>, <<"raw", raw>>, <<"html", html>>>>
    IN SelectSeq(all, LAMBDA kv : Truthy(kv[2]))

get_server_logs(me, server_id, file, colors, raw, html, reply) ==
    LET logs_url == SERVERS_URL \o "/" \o PyStr(server_id) \o "/logs"
        params == LogFlags(file, colors, raw, html)
        url_params == JoinStr([i \in 1..Len(params) |->
                                params[i][1] \o "=" \o PyStr(params[i][2])], "&")
        url_ == IF params # <<>> THEN logs_url \o "?" \o url_params ELSE logs_url
    IN IF ~IsIntOrStr(server_id) THEN NoReq(IdTypeError("server_id"))
       ELSE DataOf(make_request(me, "GET", url_, None_, None_, reply))

get_server_public_data(me, server_id, reply) ==
    IF ~IsIntOrStr(server_id) THEN NoReq(IdTypeError("server_id"))
    ELSE DataOf(make_request(me, "GET", SERVERS_URL \o "/" \o PyStr(server_id) \o "/public",
                             None_, None_, reply))

get_server_stats(me, server_id, reply) ==
    IF ~IsIntOrStr(server_id) THEN NoReq(IdTypeError("server_id"))
    ELSE DataOf(make_request(me, "GET", SERVERS_URL \o "/" \o PyStr(server_id) \o "/stats",
                             None_, None_, reply))

get_server_users(me, server_id, reply) ==
    IF ~IsIntOrStr(server_id) THEN NoReq(IdTypeError("server_id"))
    ELSE DataOf(make_request(me, "GET", SERVERS_URL \o "/" \o PyStr(server_id) \o "/users",
                             None_, None_, reply))

(***************************************************************************)
(* Schedule operations                                                     *)
(***************************************************************************)
create_schedule(me, server_id, data, reply) ==
    IF ~IsIntOrStr(server_id) THEN NoReq(IdTypeError("server_id"))
    ELSE Whole(make_request(me, "POST", SERVERS_URL \o "/" \o PyStr(server_id) \o "/tasks",
                            None_, data, reply))

modify_schedule(me, server_id, task_id, data, reply) ==
    IF ~IsIntOrStr(server_id) THEN NoReq(IdTypeError("server_id"))
    ELSE IF ~IsIntOrStr(task_id) THEN NoReq(IdTypeError("task_id"))
    ELSE Whole(make_request(me, "PATCH",
                SERVERS_URL \o "/" \o PyStr(server_id) \o "/tasks/" \o PyStr(task_id),
                None_, data, reply))

remove_schedule(me, server_id, task_id, reply) ==
    IF ~IsIntOrStr(server_id) THEN NoReq(IdTypeError("server_id"))
    ELSE IF ~IsIntOrStr(task_id) THEN NoReq(IdTypeError("task_id"))
    ELSE Whole(make_request(me, "DELETE",
                SERVERS_URL \o "/" \o PyStr(server_id) \o "/tasks/" \o PyStr(task_id),
                None_, None_, reply))

(***************************************************************************)
(* User operations                                                         *)
(***************************************************************************)
get_all_users(me, reply) ==
    DataOf(make_request(me, "GET", USERS_URL, None_, None_, reply))

\* [str(x) for x in v or []]: the strings, or the TypeError of iterating v.
StrsOf(v) ==
    IF ~Truthy(v) THEN [ok |-> TRUE, q |-> <<>>]
    ELSE IF IsList(v) THEN [ok |-> TRUE, q |-> [i \in 1..Len(v.l) |-> PyStr(v.l[i])]]
    ELSE IF IsStr(v) THEN [ok |-> TRUE, q |-> [i \in 1..Len(v.s) |-> SubSeq(v.s, i, i)]]
    ELSE [ok |-> FALSE, exc |-> "TypeError"]

\* [str(role['role_id']) for role in roles_list or []]
ValidRoles(roles_list) ==
    IF ~Truthy(roles_list) THEN [ok |-> TRUE, q |-> <<>>]
    ELSE IF ~IsList(roles_list) THEN [ok |-> FALSE, exc |-> "TypeError"]
    ELSE LET l == roles_list.l
             bad == {i \in 1..Len(l) : ~IsDict(l[i]) \/ "role_id" \notin DOMAIN l[i].d}
             first == CHOOSE i \in bad : \A j \in bad : i <= j
         IN IF bad = {} THEN [ok |-> TRUE, q |-> [i \in 1..Len(l) |-> PyStr(l[i].d["role_id"])]]
            ELSE [ok |-> FALSE, exc |-> IF IsDict(l[first]) THEN "KeyError" ELSE "TypeError"]

InSeq(x, q) == \E i \in 1..Len(q) : q[i] = x

\* Line 630 when no supplied id equals a fetched one (ids compared unconverted).
InvalidRoles_All(roles, valid_roles) == roles

\* Line 630: [role for role in roles if role not in valid_roles]
InvalidRoles(roles, valid_roles) == SelectSeq(roles, LAMBDA r : ~InSeq(r, valid_roles))

\* {key: value for key, value in data.items() if value is not None}
DropNone(f) == Dict([k \in {j \in DOMAIN f : f[j] # None_} |-> f[k]])

create_user(me, username, password, email, enabled, hints, lang, roles, superuser, replies) ==
    LET fetch == get_all_roles(me, replies[1])
        valid == ValidRoles(fetch.out.val)
        mine == StrsOf(roles)
        invalid_roles == InvalidRoles(mine.q, valid.q)
        sent == IF roles = None_ THEN None_
                ELSE List([i \in 1..Len(mine.q) |-> Str(mine.q[i])])
        data == DropNone([k \in {"username", "password", "email", "enabled", "hints", "lang",
                                 "roles", "superuser"} |->
                            CASE k = "username" -> username
                              [] k = "password" -> password
                              [] k = "email" -> email
                              [] k = "enabled" -> enabled
                              [] k = "hints" -> hints
                              [] k = "lang" -> lang
                              [] k = "roles" -> sent
                              [] k = "superuser" -> superuser])
        post == make_request(me, "POST", USERS_URL, None_, data,
                             replies[IF roles = None_ THEN 1 ELSE 2])
    IN IF roles = None_ THEN Whole(post)
       ELSE IF Raised(fetch.out) THEN fetch
       ELSE IF ~valid.ok THEN [reqs |-> fetch.reqs, out |-> Raise(valid.exc, Str("role_id"))]
       ELSE IF ~mine.ok THEN [reqs |-> fetch.reqs, out |-> Raise(mine.exc, Str("roles"))]
       ELSE IF invalid_roles # <<>>
       THEN [reqs |-> fetch.reqs,
             out |-> Raise("ValueError",
                        Str("Invalid role(s): " \o JoinStr(invalid_roles, ", ")
                            \o ". Valid role(s): " \o JoinStr(valid.q, ", ") \o "."))]
       ELSE [reqs |-> fetch.reqs \o <<post.req>>, out |-> post.out]

get_user(me, user_id, reply) ==
    IF ~IsIntOrStr(user_id) THEN NoReq(IdTypeError("user_id"))
    ELSE DataOf(make_request(me, "GET", USERS_URL \o "/" \o PyStr(user_id), None_, None_, reply))

delete_user(me, user_id, reply) ==
    IF ~IsIntOrStr(user_id) THEN NoReq(IdTypeError("user_id"))
    ELSE Whole(make_request(me, "DELETE", USERS_URL \o "/" \o PyStr(user_id), None_, None_, reply))

\* a: the keyword arguments of modify_user, as a record.
modify_user(me, user_id, a, reply) ==
    LET roles1 == IF IsIntOrStr(a.roles) THEN List(<<a.roles>>) ELSE a.roles
        roles2 == IF a.roles = None_ THEN None_
                  ELSE List([i \in 1..Len(roles1.l) |-> Str(PyStr(roles1.l[i]))])
        p == a.permissions
        data == DropNone([k \in {"username", "password", "email", "enabled", "superuser",
                                 "lang", "hints", "roles", "permissions"} |->
                            CASE k = "username" -> a.username
                              [] k = "password" -> a.password
                              [] k = "email" -> a.email
                              [] k = "enabled" -> a.enabled
                              [] k = "superuser" -> a.superuser
                              [] k = "lang" -> a.lang
                              [] k = "hints" -> a.hints
                              [] k = "roles" -> roles2
                              [] k = "permissions" -> p])
        TE(n) == NoReq(Raise("TypeError", Str(n)))
    IN IF ~IsIntOrStr(user_id) THEN NoReq(IdTypeError("user_id"))
       ELSE IF a.username # None_ /\ ~IsStr(a.username) THEN TE("username")
       ELSE IF a.password # None_ /\ ~IsStr(a.password) THEN TE("password")
       ELSE IF a.email # None_ /\ ~IsStr(a.email) THEN TE("email")
       ELSE IF a.enabled # None_ /\ ~IsBool(a.enabled) THEN TE("enabled")
       ELSE IF a.superuser # None_ /\ ~IsBool(a.superuser) THEN TE("superuser")
       ELSE IF a.lang # None_ /\ ~IsStr(a.lang) THEN TE("lang")
       ELSE IF a.hints # None_ /\ ~IsBool(a.hints) THEN TE("hints")
       ELSE IF a.roles # None_ /\ ~IsList(roles1) THEN TE("roles")
       ELSE IF p # None_ /\ ~IsDict(p) THEN TE("permissions")
       ELSE IF p # None_ /\ ~({"enabled", "name", "quantity"} \subseteq DOMAIN p.d)
       THEN NoReq(Raise("ValueError", Str("permissions")))
       ELSE IF p # None_ /\ ~IsBool(p.d["enabled"]) THEN TE("permissions.enabled")
       ELSE IF p # None_ /\ ~IsStr(p.d["name"]) THEN TE("permissions.name")
       ELSE IF p # None_ /\ ~IsInt(p.d["quantity"]) THEN TE("permissions.quantity")
       ELSE Whole(make_request(me, "PATCH", USERS_URL \o "/" \o PyStr(user_id), None_, data, reply))

get_user_crafty_permissions(me, user_id, reply) ==
    IF ~IsIntOrStr(user_id) THEN NoReq(IdTypeError("user_id"))
    ELSE DataOf(make_request(me, "GET", USERS_URL \o "/" \o PyStr(user_id) \o "/permissions",
                             None_, None_, reply))

get_user_profile_picture(me, user_id, reply) ==
    IF ~IsIntOrStr(user_id) THEN NoReq(IdTypeError("user_id"))
    ELSE DataOf(make_request(me, "GET", USERS_URL \o "/" \o PyStr(user_id) \o "/pfp",
                             None_, None_, reply))

\* No type check of user_id here (lines 808-809).
get_user_public_data(me, user_id, reply) ==
    DataOf(make_request(me, "GET", USERS_URL \o "/" \o PyStr(user_id) \o "/public",
                        None_, None_, reply))

(***************************************************************************)
(* test_foo and json_schema                                                *)
(***************************************************************************)
test_foo(me, method, route, data, reply) ==
    Whole(make_request(me, method, route, None_, data, reply))

\* The seven names the docstring lists.
valid_schemas_Seven ==
    <<"login", "modify_role", "create_role", "server_patch", "new_server", "user_patch",
      "new_user">>

valid_schemas ==
    <<"login", "modify_role", "create_role", "server_patch", "new_server", "user_patch",
      "new_user", "new_task", "patch_task">>

\* Lines 835-840 with the membership test made after the request.
json_schema_ValidateLate(me, schema, reply) ==
    LET mr == make_request(me, "GET", SCHEMA_URL \o "/" \o PyStr(schema), None_, None_, reply)
    IN IF ~IsStr(schema) THEN NoReq(Raise("TypeError", Str("schema")))
       ELSE IF ~InStrs(schema, valid_schemas)
       THEN [reqs |-> <<mr.req>>, out |-> Raise("ValueError", Str("Invalid schema"))]
       ELSE Whole(mr)

json_schema(me, schema, reply) ==
    IF ~IsStr(schema) THEN NoReq(Raise("TypeError", Str("schema")))
    ELSE IF ~InStrs(schema, valid_schemas) THEN NoReq(Raise("ValueError", Str("Invalid schema")))
    ELSE Whole(make_request(me, "GET", SCHEMA_URL \o "/" \o PyStr(schema), None_, None_, reply))

(***************************************************************************)
(* Inputs: arguments of the calls and answers of the panel.                *)
(***************************************************************************)
Tokens == {"tokA", "tokB"}
BaseUrls == {[origin |-> "https://panel.example:8443", path |-> "/"]}

\* Ids of type int or str, and values of other types passed as an id.
GoodIds ==
    {IntV(i) : i \in 1..MaxId} \cup {Str(NatToStr(i)) : i \in 1..MaxId}
        \cup {Str("abc"), Bool(TRUE)}
BadIds == {None_, List(<<IntV(1)>>), EmptyDict}
Ids == GoodIds \cup BadIds

\* Sequences over S of length 0..n.
SeqsUpTo(S, n) == UNION {[1..k -> S] : k \in 0..n}

ErrorCodes ==
    {"INCORRECT_CREDENTIALS", "SER_NOT_RUNNING", "NO_COMMAND", "SER_RUNNING",
     "NOT_AUTHORIZED", "ACCESS_DENIED", "NOT_ALLOWED", "NOT_FOUND"}
ErrorValues ==
    {Missing, None_} \cup {Str(c) : c \in ErrorCodes}
        \cup {Str("not_found"), Str("INVALID_JSON_SCHEMA")}
StatusValues == {Missing, Str("ok"), Str("error")}
InfoValues == {Missing, Str(""), Str("detail")}
ErrorDataValues == {Missing, Str("more")}
DataValues == {Missing, Dict("id" :> IntV(1))}

Bodies ==
    {Body(st, da, er, Str("detail"), Missing) :
        st \in StatusValues, da \in DataValues, er \in ErrorValues}
    \cup {Body(Str("error"), Missing, er, inf, ed) :
            er \in ErrorValues, inf \in InfoValues, ed \in ErrorDataValues}
Replies == {TransportError, NotJson} \cup {Json(b) : b \in Bodies}

\* A smaller set of answers, for the operations with many arguments.
FewReplies ==
    {TransportError,
     Json(Body(Str("ok"), Dict("id" :> IntV(1)), Missing, Missing, Missing)),
     Json(Body(Str("error"), Missing, Str("NOT_FOUND"), Missing, Str("more"))),
     Json(Body(Str("error"), None_, Str("ACCESS_DENIED"), Str("detail"), Missing)),
     Json(Body(Str("error"), None_, Str("INVALID_JSON_SCHEMA"), Str("detail"), Missing))}

\* Answers to the login request.
LoginData ==
    {Missing, None_, Dict("token" :> Str("tokNew")), Dict("user_id" :> Str("1")),
     Str("tokNew"), List(<<Str("tokNew")>>)}
LoginReplies ==
    {TransportError, NotJson}
    \cup {Json(Body(st, da, er, Missing, Missing)) :
            st \in {Str("ok"), Str("error")}, da \in LoginData,
            er \in {Missing, None_, Str("INCORRECT_CREDENTIALS"), Str("NOT_FOUND"),
                    Str("incorrect_credentials"), Str("INVALID_JSON_SCHEMA")}}

\* Answers to GET /api/v2/roles inside create_user.
RoleRow(i) == Dict("role_id" :> IntV(i))
RolesReplies ==
    {TransportError,
     Json(Body(Str("error"), Missing, Str("NOT_FOUND"), Str(""), Str("more"))),
     Json(Body(Str("error"), None_, Str("ACCESS_DENIED"), Str("detail"), Missing)),
     Json(Body(Str("ok"), None_, Missing, Missing, Missing)),
     Json(Body(Str("ok"), List(<<Dict("role_name" :> Str("ops"))>>), Missing, Missing, Missing))}
    \cup {Json(Body(Str("ok"), List([i \in 1..n |-> RoleRow(i)]), Missing, Missing, Missing)) :
            n \in 0..MaxId}

JsonBodies == {None_, EmptyDict, Dict("command" :> Str("say hi"))}

(***************************************************************************)
(* The state machine.  call is the public call that has just ended, or     *)
(* NoCall between calls.                                                   *)
(***************************************************************************)
NoCall == [op |-> "none"]

\* __init__
Init ==
    /\ url \in BaseUrls
    /\ token \in Tokens
    /\ verify_ssl \in BOOLEAN
    /\ headers = InitHeaders(token)
    /\ call = NoCall

\* A call that ends with self.headers = None, as line 74 does in get_token.
Finish_ClearsHeaders(op, args, replies, r) ==
    /\ call' = [op |-> op, args |-> args, replies |-> SubSeq(replies, 1, Len(r.reqs)),
                reqs |-> r.reqs, out |-> r.out]
    /\ headers' = None_
    /\ UNCHANGED <<url, token, verify_ssl>>

\* A call that leaves the client's attributes alone.
Finish(op, args, replies, r) ==
    /\ call' = [op |-> op, args |-> args, replies |-> SubSeq(replies, 1, Len(r.reqs)),
                reqs |-> r.reqs, out |-> r.out]
    /\ UNCHANGED <<url, token, verify_ssl, headers>>

Call_get_token ==
    /\ call = NoCall
    /\ \E username \in {Str("admin")}, password \in {None_, Str("pw")},
          password_path \in {None_, Str(""), Str("/run/pw")}, readable \in BOOLEAN,
          reply \in LoginReplies :
        LET r == get_token(self, username, password, password_path, readable, reply)
        IN /\ call' = [op |-> "get_token",
                       args |-> [username |-> username, password |-> password,
                                 password_path |-> password_path, readable |-> readable],
                       replies |-> SubSeq(<<reply>>, 1, Len(r.reqs)),
                       reqs |-> r.reqs, out |-> r.out]
           /\ headers' = r.headers
           /\ UNCHANGED <<url, token, verify_ssl>>

Call_log_out ==
    /\ call = NoCall
    /\ \E reply \in Replies : Finish("log_out", <<>>, <<reply>>, log_out(self, reply))

Call_get_all_roles ==
    /\ call = NoCall
    /\ \E reply \in Replies : Finish("get_all_roles", <<>>, <<reply>>, get_all_roles(self, reply))

Call_get_all_servers ==
    /\ call = NoCall
    /\ \E reply \in Replies :
        Finish("get_all_servers", <<>>, <<reply>>, get_all_servers(self, reply))

Call_get_all_users ==
    /\ call = NoCall
    /\ \E reply \in Replies : Finish("get_all_users", <<>>, <<reply>>, get_all_users(self, reply))

Call_get_role ==
    /\ call = NoCall
    /\ \E role_id \in Ids, reply \in Replies :
        Finish("get_role", [role_id |-> role_id], <<reply>>, get_role(self, role_id, reply))

Call_get_roles_servers ==
    /\ call = NoCall
    /\ \E role_id \in Ids, reply \in Replies :
        Finish("get_roles_servers", [role_id |-> role_id], <<reply>>, get_roles_servers(self, role_id, reply))

Call_get_role_users ==
    /\ call = NoCall
    /\ \E role_id \in Ids, reply \in Replies :
        Finish("get_role_users", [role_id |-> role_id], <<reply>>, get_role_users(self, role_id, reply))

Call_delete_role ==
    /\ call = NoCall
    /\ \E role_id \in Ids, reply \in Replies :
        Finish("delete_role", [role_id |-> role_id], <<reply>>, delete_role(self, role_id, reply))

Call_get_server ==
    /\ call = NoCall
    /\ \E server_id \in Ids, reply \in Replies :
        Finish("get_server", [server_id |-> server_id], <<reply>>, get_server(self, server_id, reply))

Call_delete_server ==
    /\ call = NoCall
    /\ \E server_id \in Ids, reply \in Replies :
        Finish("delete_server", [server_id |-> server_id], <<reply>>, delete_server(self, server_id, reply))

Call_get_server_public_data ==
    /\ call = NoCall
    /\ \E server_id \in Ids, reply \in Replies :
        Finish("get_server_public_data", [server_id |-> server_id], <<reply>>, get_server_public_data(self, server_id, reply))

Call_get_server_stats ==
    /\ call = NoCall
    /\ \E server_id \in Ids, reply \in Replies :
        Finish("get_server_stats", [server_id |-> server_id], <<reply>>, get_server_stats(self, server_id, reply))

Call_get_server_users ==
    /\ call = NoCall
    /\ \E server_id \in Ids, reply \in Replies :
        Finish("get_server_users", [server_id |-> server_id], <<reply>>, get_server_users(self, server_id, reply))

Call_get_user ==
    /\ call = NoCall
    /\ \E user_id \in Ids, reply \in Replies :
        Finish("get_user", [user_id |-> user_id], <<reply>>, get_user(self, user_id, reply))

Call_delete_user ==
    /\ call = NoCall
    /\ \E user_id \in Ids, reply \in Replies :
        Finish("delete_user", [user_id |-> user_id], <<reply>>, delete_user(self, user_id, reply))

Call_get_user_crafty_permissions ==
    /\ call = NoCall
    /\ \E user_id \in Ids, reply \in Replies :
        Finish("get_user_crafty_permissions", [user_id |-> user_id], <<reply>>, get_user_crafty_permissions(self, user_id, reply))

Call_get_user_profile_picture ==
    /\ call = NoCall
    /\ \E user_id \in Ids, reply \in Replies :
        Finish("get_user_profile_picture", [user_id |-> user_id], <<reply>>, get_user_profile_picture(self, user_id, reply))

Call_get_user_public_data ==
    /\ call = NoCall
    /\ \E user_id \in Ids, reply \in Replies :
        Finish("get_user_public_data", [user_id |-> user_id], <<reply>>, get_user_public_data(self, user_id, reply))

Call_create_role ==
    /\ call = NoCall
    /\ \E name \in {Str("ops")},
          server_ids \in {IntV(1), Str("2"), Str("abc"), None_}
                            \cup {List(q) : q \in SeqsUpTo({IntV(1), Str("2")}, MaxLen)},
          permissions \in {Str("11110000"), IntV(1010)}, reply \in FewReplies :
        Finish("create_role",
               [name |-> name, server_ids |-> server_ids, permissions |-> permissions],
               <<reply>>, create_role(self, name, server_ids, permissions, reply))

Call_modify_role ==
    /\ call = NoCall
    /\ \E role_id \in {IntV(1), Str("2"), None_}, name \in {None_, Str("ops"), IntV(7)},
          server_ids \in {None_, IntV(1), Str("1")}
                            \cup {List(q) : q \in SeqsUpTo({IntV(1), IntV(2)}, MaxLen)},
          permissions \in {None_, Str("11110000"), IntV(1), IntV(10), EmptyDict}
                            \cup {List(q) : q \in SeqsUpTo({Str("11110000"), Str("00001111")}, MaxLen)},
          reply \in FewReplies :
        Finish("modify_role",
               [role_id |-> role_id, name |-> name, server_ids |-> server_ids,
                permissions |-> permissions],
               <<reply>>, modify_role(self, role_id, name, server_ids, permissions, reply))

ServerPatches ==
    {Dict(f) : f \in UNION {[K -> {Str("v"), IntV(1)}] :
                K \in SUBSET {"server_name", "shutdown_timeout", "server_uuid"}}}

Call_modify_server ==
    /\ call = NoCall
    /\ \E server_id \in Ids, data \in ServerPatches, reply \in FewReplies :
        Finish("modify_server", [server_id |-> server_id, data |-> data],
               <<reply>>, modify_server(self, server_id, data, reply))

Actions ==
    {Str(a) : a \in {"clone_server", "start_server", "stop_server", "restart_server",
                     "kill_server", "backup_server", "update_executable",
                     "Start_Server", "reboot", ""}}
        \cup {None_, IntV(1)}

Call_send_server_action ==
    /\ call = NoCall
    /\ \E server_id \in Ids, action \in Actions, reply \in Replies :
        Finish("send_server_action", [server_id |-> server_id, action |-> action],
               <<reply>>, send_server_action(self, server_id, action, reply))

Call_STDIn_command ==
    /\ call = NoCall
    /\ \E server_id \in Ids, data \in JsonBodies, reply \in FewReplies :
        Finish("STDIn_command", [server_id |-> server_id, data |-> data],
               <<reply>>, STDIn_command(self, server_id, data, reply))

Call_get_server_logs ==
    /\ call = NoCall
    /\ \E server_id \in Ids, file \in BOOLEAN, colors \in BOOLEAN, raw \in BOOLEAN,
          html \in BOOLEAN, reply \in FewReplies :
        Finish("get_server_logs",
               [server_id |-> server_id, file |-> Bool(file), colors |-> Bool(colors),
                raw |-> Bool(raw), html |-> Bool(html)],
               <<reply>>,
               get_server_logs(self, server_id, Bool(file), Bool(colors), Bool(raw),
                               Bool(html), reply))

Call_create_schedule ==
    /\ call = NoCall
    /\ \E server_id \in Ids, data \in JsonBodies, reply \in FewReplies :
        Finish("create_schedule", [server_id |-> server_id, data |-> data],
               <<reply>>, create_schedule(self, server_id, data, reply))

Call_modify_schedule ==
    /\ call = NoCall
    /\ \E server_id \in Ids, task_id \in Ids, data \in JsonBodies, reply \in FewReplies :
        Finish("modify_schedule", [server_id |-> server_id, task_id |-> task_id, data |-> data],
               <<reply>>, modify_schedule(self, server_id, task_id, data, reply))

Call_remove_schedule ==
    /\ call = NoCall
    /\ \E server_id \in Ids, task_id \in Ids, reply \in FewReplies :
        Finish("remove_schedule", [server_id |-> server_id, task_id |-> task_id],
               <<reply>>, remove_schedule(self, server_id, task_id, reply))

RolesArgs ==
    {None_, IntV(1), IntV(0)}
        \cup {List(q) : q \in SeqsUpTo({IntV(1), Str("2"), IntV(MaxId + 1)}, MaxLen)}

Call_create_user ==
    /\ call = NoCall
    /\ \E username \in {Str("bob")}, password \in {Str("pw")}, email \in {None_, Str("b@x")},
          roles \in RolesArgs, r1 \in RolesReplies, r2 \in FewReplies :
        LET replies == IF roles = None_ THEN <<r2>> ELSE <<r1, r2>>
        IN Finish("create_user",
                  [username |-> username, password |-> password, email |-> email,
                   roles |-> roles],
                  replies,
                  create_user(self, username, password, email, Bool(TRUE), Bool(TRUE),
                              Str("en_US"), roles, Bool(FALSE), replies))

\* modify_user with every optional argument None.
NoChange ==
    [username |-> None_, password |-> None_, email |-> None_, enabled |-> None_,
     superuser |-> None_, lang |-> None_, hints |-> None_, roles |-> None_,
     permissions |-> None_]

PermissionsArgs ==
    {EmptyDict, Str("111"), Dict(("enabled" :> Bool(TRUE)) @@ ("name" :> Str("111"))),
     Dict(("enabled" :> Bool(TRUE)) @@ ("name" :> Str("111")) @@ ("quantity" :> IntV(1))),
     Dict(("enabled" :> IntV(1)) @@ ("name" :> Str("111")) @@ ("quantity" :> IntV(1))),
     Dict(("enabled" :> Bool(TRUE)) @@ ("name" :> IntV(111)) @@ ("quantity" :> IntV(1))),
     Dict(("enabled" :> Bool(TRUE)) @@ ("name" :> Str("111")) @@ ("quantity" :> Str("1")))}

\* The values tried for one keyword argument of modify_user.
UserArgValues(k) ==
    CASE k \in {"username", "password", "email", "lang"} -> {Str("x"), IntV(1)}
      [] k \in {"enabled", "superuser", "hints"} -> {Bool(TRUE), IntV(1), Str("yes")}
      [] k = "roles" ->
            {IntV(1), Str("2"), EmptyDict} \cup {List(q) : q \in SeqsUpTo({IntV(1), Str("2")}, MaxLen)}
      [] k = "permissions" -> PermissionsArgs

Call_modify_user ==
    /\ call = NoCall
    /\ \E user_id \in {IntV(1), Str("2"), None_}, k1 \in DOMAIN NoChange, k2 \in DOMAIN NoChange,
          reply \in FewReplies :
        \E v1 \in UserArgValues(k1), v2 \in UserArgValues(k2) :
            LET a == [[NoChange EXCEPT ![k1] = v1] EXCEPT ![k2] = v2]
            IN Finish("modify_user", [user_id |-> user_id, kwargs |-> a],
                      <<reply>>, modify_user(self, user_id, a, reply))

Call_test_foo ==
    /\ call = NoCall
    /\ \E method \in {"GET", "POST"}, route \in {ROLES_URL, USERS_URL \o "/1"},
          data \in {None_, EmptyDict}, reply \in Replies :
        Finish("test_foo", [method |-> method, url |-> route, data |-> data],
               <<reply>>, test_foo(self, method, route, data, reply))

Schemas ==
    {Str(n) : n \in {"login", "modify_role", "create_role", "server_patch", "new_server",
                     "user_patch", "new_user", "new_task", "patch_task",
                     "Login", "logout", ""}}
        \cup {None_, IntV(1), List(<<Str("login")>>)}

Call_json_schema ==
    /\ call = NoCall
    /\ \E schema \in Schemas, reply \in Replies :
        Finish("json_schema", [schema |-> schema], <<reply>>, json_schema(self, schema, reply))

\* The caller has the outcome; the client is ready for the next call.
NextCall ==
    /\ call # NoCall
    /\ call' = NoCall
    /\ UNCHANGED <<url, token, verify_ssl, headers>>

Next ==
    \/ Call_get_token
    \/ Call_log_out
    \/ Call_get_all_roles
    \/ Call_create_role
    \/ Call_get_role
    \/ Call_get_roles_servers
    \/ Call_get_role_users
    \/ Call_delete_role
    \/ Call_modify_role
    \/ Call_get_all_servers
    \/ Call_get_server
    \/ Call_delete_server
    \/ Call_modify_server
    \/ Call_send_server_action
    \/ Call_STDIn_command
    \/ Call_get_server_logs
    \/ Call_get_server_public_data
    \/ Call_get_server_stats
    \/ Call_get_server_users
    \/ Call_create_schedule
    \/ Call_modify_schedule
    \/ Call_remove_schedule
    \/ Call_get_all_users
    \/ Call_create_user
    \/ Call_get_user
    \/ Call_delete_user
    \/ Call_modify_user
    \/ Call_get_user_crafty_permissions
    \/ Call_get_user_profile_picture
    \/ Call_get_user_public_data
    \/ Call_test_foo
    \/ Call_json_schema
    \/ NextCall

Spec == Init /\ [][Next]_vars

(***************************************************************************)
(* Properties.                                                             *)
(***************************************************************************)
\* The call that has just ended is a call of op.
Ended(op) == call.op = op

\* The header mapping h is Authorization: Bearer <tok>, Content-Type: application/json.
IsBearer(h, tok) ==
    /\ IsDict(h)
    /\ DOMAIN h.d = {"Authorization", "Content-Type"}
    /\ h.d["Authorization"] = Str("Bearer " \o tok)
    /\ h.d["Content-Type"] = Str("application/json")

\* C1: every request of an operation other than get_token carries the
\* Authorization: Bearer <token> and Content-Type: application/json headers,
\* and only the login request is sent without headers.
C1_BearerOnEveryRequest ==
    ~Ended("none") =>
        \A i \in 1..Len(call.reqs) :
            IF Ended("get_token") THEN call.reqs[i].headers = None_
            ELSE IsBearer(call.reqs[i].headers, token)

\* The request r is a POST to the login endpoint.
IsLoginPost(r) == r.method = "POST" /\ r.endpoint = url.origin \o "/api/v2/auth/login"

\* C2 as stated: get_token with neither or both of password and
\* password_path raises ValueError and issues no request; with exactly one
\* it issues exactly one POST to the login endpoint.  (Taken for a
\* password_path that, when given, names a file that can be read.)
C2_ExactlyOneOrValueError ==
    (Ended("get_token") /\ call.args.readable /\ call.args.password_path # Str("")) =>
        IF (call.args.password = None_) # (call.args.password_path = None_)
        THEN Len(call.reqs) = 1 /\ IsLoginPost(call.reqs[1])
        ELSE /\ call.reqs = <<>>
             /\ call.out.k = "raise"
             /\ call.out.exc = "ValueError"

\* C2 as amended: get_token raises ValueError, with no request, exactly when
\* both password and password_path are None.  When at least one is given and
\* the password file, if one is named, can be read, it issues exactly one
\* POST to the login endpoint; given both, it sends the file's content
\* instead of password.  A named file that cannot be read raises OSError
\* before any request.
C2_ValueErrorOnlyWhenBothOmitted ==
    Ended("get_token") =>
        LET pw == call.args.password
            path == call.args.password_path
            named == path \notin {None_, Str("")}
        IN /\ (call.out.k = "raise" /\ call.out.exc = "ValueError")
                <=> (pw = None_ /\ path = None_)
           /\ (pw = None_ /\ path = None_) => call.reqs = <<>>
           /\ (named /\ ~call.args.readable) =>
                call.reqs = <<>> /\ call.out.k = "raise" /\ call.out.exc = "OSError"
           /\ ((pw # None_ \/ path # None_) /\ (named => call.args.readable)) =>
                /\ Len(call.reqs) = 1
                /\ IsLoginPost(call.reqs[1])
                /\ call.reqs[1].json.d["password"] = IF named THEN FileContent ELSE pw

\* C2 witness: both password and password_path given, and the login POST sent.
C2_Witness ==
    /\ Ended("get_token")
    /\ call.args.password = Str("pw")
    /\ call.args.password_path = Str("/run/pw")
    /\ Len(call.reqs) = 1
    /\ call.reqs[1].json.d["password"] = FileContent

\* The failure kind the table gives for a recognized error code.
FailureKind(code) ==
    CASE code = "INCORRECT_CREDENTIALS" -> "IncorrectCredentials"
      [] code = "SER_NOT_RUNNING" -> "ServerNotRunning"
      [] code = "NO_COMMAND" -> "MissingParameters"
      [] code = "SER_RUNNING" -> "ServerAlreadyRunning"
      [] code = "NOT_AUTHORIZED" -> "AccessDenied"
      [] code = "ACCESS_DENIED" -> "AccessDenied"
      [] code = "NOT_ALLOWED" -> "NotAllowed"
      [] code = "NOT_FOUND" -> "ServerNotFound"

RecognizedCodes ==
    {"INCORRECT_CREDENTIALS", "SER_NOT_RUNNING", "NO_COMMAND", "SER_RUNNING",
     "NOT_AUTHORIZED", "ACCESS_DENIED", "NOT_ALLOWED", "NOT_FOUND"}

Recognized(e) == \E c \in RecognizedCodes : e = Str(c)

\* The operations that hand back what the request primitive returned or
\* raised (the envelope, or its data) with no handling of their own.
PlainOps ==
    {"get_all_roles", "create_role", "get_role", "get_roles_servers", "get_role_users",
     "delete_role", "modify_role", "get_all_servers", "get_server", "delete_server",
     "modify_server", "send_server_action", "STDIn_command", "get_server_logs",
     "get_server_public_data", "get_server_stats", "get_server_users", "create_schedule",
     "modify_schedule", "remove_schedule", "get_all_users", "get_user", "delete_user",
     "modify_user", "get_user_crafty_permissions", "get_user_profile_picture",
     "get_user_public_data", "test_foo", "json_schema"}

\* C3: for a JSON answer, the request primitive raises a typed failure
\* exactly when the error member is one of the 8 recognized codes, of the
\* kind the table gives; for any other or absent error, whatever the status,
\* it raises nothing and returns the envelope.
C3_ErrorTranslation ==
    (call.op \in PlainOps /\ Len(call.reqs) = 1 /\ call.replies[1].t = "json") =>
        LET b == call.replies[1].body
            e == Get(b, "error")
        IN IF Recognized(e)
           THEN call.out.k = "raise" /\ call.out.exc = FailureKind(e.s)
           ELSE /\ call.out.k = "return"
                /\ Ended("test_foo") =>
                    /\ call.out.val.status = Get(b, "status")
                    /\ call.out.val.data = Get(b, "data")
                    /\ call.out.val.error = e

\* C3 witness: the primitive raised NotAllowed for NOT_ALLOWED under status ok.
C3_Witness ==
    /\ Ended("test_foo")
    /\ Len(call.reqs) = 1
    /\ call.replies[1].t = "json"
    /\ Get(call.replies[1].body, "error") = Str("NOT_ALLOWED")
    /\ Get(call.replies[1].body, "status") = Str("ok")
    /\ call.out.k = "raise"
    /\ call.out.exc = "NotAllowed"

\* C4: whenever an answer to a request of any operation has error NOT_FOUND,
\* the operation raises ServerNotFound, with the answer's info as detail, or
\* its error_data when info is absent or empty.
C4_NotFoundRaises ==
    ~Ended("none") =>
        \A i \in 1..Len(call.replies) :
            LET rp == call.replies[i] IN
            (rp.t = "json" /\ Get(rp.body, "error") = Str("NOT_FOUND")) =>
                /\ call.out.k = "raise"
                /\ call.out.exc = "ServerNotFound"
                /\ call.out.detail =
                        IF Get(rp.body, "info") \in {None_, Str("")}
                        THEN Get(rp.body, "error_data")
                        ELSE Get(rp.body, "info")

\* C4 witness: NOT_FOUND with an empty info; the detail is the error_data.
C4_Witness ==
    /\ Ended("create_user")
    /\ Len(call.replies) = 1
    /\ call.replies[1].t = "json"
    /\ Get(call.replies[1].body, "error") = Str("NOT_FOUND")
    /\ Get(call.replies[1].body, "info") = Str("")
    /\ call.out = Raise("ServerNotFound", Str("more"))

SevenActions ==
    {"clone_server", "start_server", "stop_server", "restart_server", "kill_server",
     "backup_server", "update_executable"}

\* The operations that take a role, server, user or task id.
IdOps ==
    {"get_role", "get_roles_servers", "get_role_users", "delete_role", "modify_role",
     "get_server", "delete_server", "modify_server", "send_server_action", "STDIn_command",
     "get_server_logs", "get_server_public_data", "get_server_stats", "get_server_users",
     "create_schedule", "modify_schedule", "remove_schedule", "get_user", "delete_user",
     "modify_user", "get_user_crafty_permissions", "get_user_profile_picture",
     "get_user_public_data"}

IdNames == {"role_id", "server_id", "user_id", "task_id"}

\* C5: an operation that takes an id raises TypeError, and issues no request,
\* when an id is neither an int nor a str (its other arguments being valid).
C5_IdTypeChecked ==
    (/\ call.op \in IdOps
     /\ \E n \in IdNames \cap DOMAIN call.args : ~IsIntOrStr(call.args[n])
     /\ Ended("send_server_action") =>
            (IsStr(call.args.action) /\ call.args.action.s \in SevenActions)) =>
        /\ call.reqs = <<>>
        /\ call.out.k = "raise"
        /\ call.out.exc = "TypeError"

\* The four-field envelope of a JSON body.
EnvelopeOf(b) ==
    [status |-> Get(b, "status"), data |-> Get(b, "data"), error |-> Get(b, "error"),
     info |-> IF Get(b, "info") \in {None_, Str("")} THEN Get(b, "error_data")
              ELSE Get(b, "info")]

\* C6: send_server_action raises ValueError and issues no request for an
\* action outside the seven; for each of the seven, with an int or str
\* server id, it issues exactly one POST to /api/v2/servers/{id}/action/{action}
\* with no body, and what it returns is the envelope of the answer.
C6_ServerAction ==
    Ended("send_server_action") =>
        LET a == call.args.action
            id == call.args.server_id
        IN IF ~(IsStr(a) /\ a.s \in SevenActions)
           THEN call.reqs = <<>> /\ call.out.k = "raise" /\ call.out.exc = "ValueError"
           ELSE IsIntOrStr(id) =>
                /\ Len(call.reqs) = 1
                /\ call.reqs[1].method = "POST"
                /\ call.reqs[1].endpoint =
                        url.origin \o "/api/v2/servers/" \o PyStr(id) \o "/action/" \o a.s
                /\ call.reqs[1].json = None_
                /\ call.reqs[1].params = None_
                /\ call.out.k = "return" => call.out.val = EnvelopeOf(call.replies[1].body)
                /\ (call.replies[1].t = "json"
                        /\ ~Recognized(Get(call.replies[1].body, "error")))
                    => call.out.k = "return"

\* C6 witness: update_executable sent for a str id, and the envelope returned.
C6_Witness ==
    /\ Ended("send_server_action")
    /\ call.args.action = Str("update_executable")
    /\ call.args.server_id = Str("2")
    /\ Len(call.reqs) = 1
    /\ call.reqs[1].endpoint = url.origin \o "/api/v2/servers/2/action/update_executable"
    /\ call.out.k = "return"
    /\ call.out.val.status = Str("ok")

\* modify_role's server_ids and permissions do not pair up: exactly one is
\* None, or both are lists of unequal length.
Unpaired(ids, perms) ==
    \/ (ids = None_) # (perms = None_)
    \/ IsList(ids) /\ IsList(perms) /\ Len(ids.l) # Len(perms.l)

\* They pair up: both None, or both lists of equal length.
Paired(ids, perms) ==
    \/ ids = None_ /\ perms = None_
    \/ IsList(ids) /\ IsList(perms) /\ Len(ids.l) = Len(perms.l)

\* C7 as stated: modify_role raises ValueError and issues no request
\* whenever exactly one of server_ids and permissions is given or both are
\* lists of unequal length; with neither, or lists of equal length, it raises
\* no such error.
C7_UnpairedValueError ==
    Ended("modify_role") =>
        /\ Unpaired(call.args.server_ids, call.args.permissions) =>
            call.reqs = <<>> /\ call.out.k = "raise" /\ call.out.exc = "ValueError"
        /\ Paired(call.args.server_ids, call.args.permissions) =>
            ~(call.out.k = "raise" /\ call.out.exc = "ValueError")

\* C7 as amended: the same, for a role_id that is an int or str and a name
\* that is a str or None; with another role_id or name the call raises
\* TypeError before it looks at server_ids and permissions.  No request is
\* issued in either case.
C7_UnpairedValueErrorAfterTypeChecks ==
    Ended("modify_role") =>
        LET typed == /\ IsIntOrStr(call.args.role_id)
                     /\ (call.args.name = None_ \/ IsStr(call.args.name))
        IN /\ Unpaired(call.args.server_ids, call.args.permissions) =>
                /\ call.reqs = <<>>
                /\ call.out.k = "raise"
                /\ call.out.exc = IF typed THEN "ValueError" ELSE "TypeError"
           /\ Paired(call.args.server_ids, call.args.permissions) =>
                ~(call.out.k = "raise" /\ call.out.exc = "ValueError")
           /\ ~typed => call.reqs = <<>> /\ call.out.k = "raise" /\ call.out.exc = "TypeError"

\* C7 witness: two server ids with one permission string, and ValueError.
C7_Witness ==
    /\ Ended("modify_role")
    /\ call.args.role_id = IntV(1)
    /\ IsList(call.args.server_ids) /\ Len(call.args.server_ids.l) = 2
    /\ IsList(call.args.permissions) /\ Len(call.args.permissions.l) = 1
    /\ call.reqs = <<>>
    /\ call.out.k = "raise"
    /\ call.out.exc = "ValueError"

\* The role fetch of create_user was answered with a role list: null, or a
\* list of rows that each have a role_id.
RoleListAnswer(rp) ==
    /\ rp.t = "json"
    /\ ~Recognized(Get(rp.body, "error"))
    /\ LET d == Get(rp.body, "data")
       IN d = None_ \/ (IsList(d) /\ \A i \in 1..Len(d.l) :
                            IsDict(d.l[i]) /\ "role_id" \in DOMAIN d.l[i].d)

\* C8: create_user with a roles list first GETs /api/v2/roles and compares
\* each supplied id, as a string, with the fetched ids.  With an unknown id
\* it raises ValueError naming every invalid and every valid id and never
\* POSTs to /api/v2/users; with all ids valid, an empty list, or no roles, it
\* raises no validation error and issues the POST.
C8_RoleValidation ==
    Ended("create_user") =>
        LET roles == call.args.roles
            usersPost(r) == r.method = "POST" /\ r.endpoint = url.origin \o "/api/v2/users"
        IN /\ roles = None_ =>
                /\ Len(call.reqs) = 1 /\ usersPost(call.reqs[1])
                /\ ~(call.out.k = "raise" /\ call.out.exc = "ValueError")
           /\ IsList(roles) =>
                /\ Len(call.reqs) >= 1
                /\ call.reqs[1].method = "GET"
                /\ call.reqs[1].endpoint = url.origin \o "/api/v2/roles"
                /\ RoleListAnswer(call.replies[1]) =>
                    LET d == Get(call.replies[1].body, "data")
                        fetched == IF d = None_ THEN <<>>
                                   ELSE [i \in 1..Len(d.l) |-> PyStr(d.l[i].d["role_id"])]
                        supplied == [i \in 1..Len(roles.l) |-> PyStr(roles.l[i])]
                        unknown == SelectSeq(supplied,
                                        LAMBDA x : \A i \in 1..Len(fetched) : fetched[i] # x)
                    IN IF unknown # <<>>
                       THEN /\ Len(call.reqs) = 1
                            /\ call.out = Raise("ValueError",
                                    Str("Invalid role(s): " \o JoinStr(unknown, ", ")
                                        \o ". Valid role(s): " \o JoinStr(fetched, ", ") \o "."))
                       ELSE /\ Len(call.reqs) = 2 /\ usersPost(call.reqs[2])
                            /\ ~(call.out.k = "raise" /\ call.out.exc = "ValueError")

\* C8 witness: one known and one unknown id supplied; ValueError, and no POST.
C8_Witness ==
    /\ Ended("create_user")
    /\ call.args.roles = List(<<IntV(1), IntV(MaxId + 1)>>)
    /\ RoleListAnswer(call.replies[1])
    /\ Get(call.replies[1].body, "data") # None_
    /\ Len(Get(call.replies[1].body, "data").l) = MaxId
    /\ Len(call.reqs) = 1
    /\ call.out.k = "raise"
    /\ call.out.exc = "ValueError"

NineSchemas ==
    {"login", "modify_role", "create_role", "server_patch", "new_server", "user_patch",
     "new_user", "new_task", "patch_task"}

HasToken(b) == IsDict(Get(b, "data")) /\ "token" \in DOMAIN Get(b, "data").d

\* C10 as stated: get_token has exactly three outcomes, decided by the login
\* answer: data with a token, the token is returned; INCORRECT_CREDENTIALS,
\* IncorrectCredentials is raised; no data and no recognized error code, a
\* generic Exception is raised.  It returns nothing but the issued token.
C10_ThreeOutcomes ==
    (Ended("get_token") /\ Len(call.reqs) = 1 /\ call.replies[1].t = "json") =>
        LET b == call.replies[1].body
            e == Get(b, "error")
            returnsToken == call.out = Return(Get(b, "data").d["token"])
            incorrect == call.out.k = "raise" /\ call.out.exc = "IncorrectCredentials"
            generic == call.out.k = "raise" /\ call.out.exc = "Exception"
        IN /\ HasToken(b) => returnsToken
           /\ e = Str("INCORRECT_CREDENTIALS") => incorrect
           /\ (Get(b, "data") = None_ /\ ~Recognized(e)) => generic
           /\ (HasToken(b) /\ returnsToken) \/ incorrect \/ generic

\* C10 as amended: a login answer with one of the 8 recognized error codes
\* raises that code's typed failure (IncorrectCredentials for
\* INCORRECT_CREDENTIALS), whatever its data.  Without a recognized code:
\* data holding a token, the token is returned; no data, a generic Exception
\* is raised; data without a token, KeyError or TypeError is raised.  It
\* returns nothing but the issued token.
C10_OutcomesByAnswer ==
    (Ended("get_token") /\ Len(call.reqs) = 1 /\ call.replies[1].t = "json") =>
        LET b == call.replies[1].body
            e == Get(b, "error")
            raises(x) == call.out.k = "raise" /\ call.out.exc = x
        IN /\ Recognized(e) => raises(FailureKind(e.s))
           /\ (~Recognized(e) /\ HasToken(b)) => call.out = Return(Get(b, "data").d["token"])
           /\ (~Recognized(e) /\ Get(b, "data") = None_) => raises("Exception")
           /\ (~Recognized(e) /\ Get(b, "data") # None_ /\ ~HasToken(b)) =>
                raises("KeyError") \/ raises("TypeError")
           /\ call.out.k = "return" =>
                HasToken(b) /\ call.out.val = Get(b, "data").d["token"]

\* C10 witness: the login answer held a token and get_token returned it.
C10_Witness ==
    /\ Ended("get_token")
    /\ Len(call.reqs) = 1
    /\ call.replies[1].t = "json"
    /\ HasToken(call.replies[1].body)
    /\ call.out = Return(Str("tokNew"))

\* C11: log_out issues one POST to /api/v2/auth/invalidate_tokens; for a JSON
\* answer it returns the envelope when status is "ok", and for any other
\* status it raises the typed failure of the answer's error code or returns
\* the envelope; it never ends without the envelope returned or a raise.
\* (Taken for the answers that carry a status, "ok" or "error".)
C11_LogOutEnvelopeOrRaise ==
    Ended("log_out") =>
        /\ Len(call.reqs) = 1
        /\ call.reqs[1].method = "POST"
        /\ call.reqs[1].endpoint = url.origin \o "/api/v2/auth/invalidate_tokens"
        /\ (call.replies[1].t = "json"
                /\ Get(call.replies[1].body, "status") \in {Str("ok"), Str("error")}) =>
            LET b == call.replies[1].body
                e == Get(b, "error")
            IN IF Recognized(e)
               THEN call.out.k = "raise" /\ call.out.exc = FailureKind(e.s)
               ELSE call.out = Return(EnvelopeOf(b))

\* C12: no operation other than get_token changes the client's configuration:
\* across every call of another operation, whether it returns or raises, the
\* base URL, the stored token, the TLS-verify flag and the header mapping keep
\* their values; log_out leaves the token and the Authorization header in
\* place.
C12_ConfigChangedOnlyByGetToken ==
    [][call'.op # "get_token" =>
            /\ url' = url
            /\ token' = token
            /\ verify_ssl' = verify_ssl
            /\ headers' = headers]_vars

\* C12 witness: log_out was answered "ok" and returned the envelope, and the
\* header mapping still carries the bearer token.
C12_Witness ==
    /\ Ended("log_out")
    /\ call.out.k = "return"
    /\ call.out.val # None_
    /\ call.out.val.status = Str("ok")
    /\ IsBearer(headers, token)

\* The call ended with a TypeError or ValueError that one of its arguments
\* caused.  (The TypeError of get_token and of create_user can come from the
\* panel's answer, and is left out.)
ArgumentError ==
    /\ ~Ended("none")
    /\ call.out.k = "raise"
    /\ \/ call.out.exc = "ValueError"
       \/ call.out.exc = "TypeError" /\ call.op \notin {"get_token", "create_user"}

\* C13 as stated: whenever an operation fails with an argument-validation
\* error (TypeError or ValueError), it has issued no request in that call.
C13_ValidationBeforeAnyRequest ==
    ArgumentError => call.reqs = <<>>

\* C13 as amended: the same for every operation but create_user; the
\* ValueError of create_user for an invalid role id is raised after its
\* GET /api/v2/roles was answered with the role list, that GET being the only
\* request of the call (no POST to /api/v2/users).
C13_ValidationBeforeRequestButRoles ==
    ArgumentError =>
        IF Ended("create_user")
        THEN /\ Len(call.reqs) = 1
             /\ call.reqs[1].method = "GET"
             /\ call.reqs[1].endpoint = url.origin \o "/api/v2/roles"
             /\ RoleListAnswer(call.replies[1])
             /\ IsList(call.args.roles)
        ELSE call.reqs = <<>>

\* C13 witness: create_user given a valid and an invalid role id raised
\* ValueError with the role fetch as its one request.
C13_Witness ==
    /\ Ended("create_user")
    /\ call.args.roles = List(<<Str("2"), IntV(MaxId + 1)>>)
    /\ call.out.k = "raise"
    /\ call.out.exc = "ValueError"
    /\ Len(call.reqs) = 1
    /\ call.reqs[1].method = "GET"

\* The request answered by rp failed: no answer, an answer that is not JSON,
\* or a recognized error code.
Failed(rp) ==
    \/ rp.t \in {"transport_error", "not_json"}
    \/ rp.t = "json" /\ Recognized(Get(rp.body, "error"))

\* The exception a failed request raises.
FailureOf(rp) ==
    CASE rp.t = "transport_error" -> "RequestException"
      [] rp.t = "not_json" -> "JSONDecodeError"
      [] OTHER -> FailureKind(Get(rp.body, "error").s)

\* A failed request is the last request of its call, and the call raises
\* its failure; no request is issued twice in one call.
NeverReissued ==
    /\ \A i \in 1..Len(call.reqs) :
            Failed(call.replies[i]) =>
                /\ i = Len(call.reqs)
                /\ call.out.k = "raise"
                /\ call.out.exc = FailureOf(call.replies[i])
    /\ \A i, j \in 1..Len(call.reqs) : i # j => call.reqs[i] # call.reqs[j]

\* C14 as stated: every call of a public operation issues at most one
\* request, and a request that fails is never issued again: its failure is
\* what the call raises.
C14_AtMostOneRequest ==
    ~Ended("none") => Len(call.reqs) <= 1 /\ NeverReissued

\* C14 as amended: every call issues at most one request, except create_user
\* given roles, which issues GET /api/v2/roles and then, the roles being
\* valid, POST /api/v2/users; a request that fails is the last of its call
\* and its failure is what the call raises.
C14_AtMostOneRequestButCreateUser ==
    ~Ended("none") =>
        /\ NeverReissued
        /\ IF Ended("create_user") /\ call.args.roles # None_
           THEN /\ Len(call.reqs) \in {1, 2}
                /\ call.reqs[1].method = "GET"
                /\ call.reqs[1].endpoint = url.origin \o "/api/v2/roles"
                /\ Len(call.reqs) = 2 =>
                    /\ call.reqs[2].method = "POST"
                    /\ call.reqs[2].endpoint = url.origin \o "/api/v2/users"
           ELSE Len(call.reqs) <= 1

\* C14 witness: create_user issued the GET and the POST, the POST failed
\* with ACCESS_DENIED, and the call raised AccessDenied.
C14_Witness ==
    /\ Ended("create_user")
    /\ Len(call.reqs) = 2
    /\ call.replies[1].t = "json"
    /\ call.replies[2].t = "json"
    /\ Get(call.replies[2].body, "error") = Str("ACCESS_DENIED")
    /\ call.out.k = "raise"
    /\ call.out.exc = "AccessDenied"

\* x is an int, or a str that is the decimal numeral of a number.
Numeric(x) ==
    \/ x.t = "int"
    \/ x.t = "str" /\ \E n \in 0..99 : NatToStr(n) = x.s

\* The number int(x) of a Numeric x.
NumberOf(x) == IF x.t = "int" THEN x.i ELSE CHOOSE n \in 0..99 : NatToStr(n) = x.s

\* The servers entry create_role sends for the id x under permissions p.
RoleEntry(x, p) ==
    Dict(("server_id" :> IntV(NumberOf(x)))
         @@ ("permissions" :> Str(IF p.t = "str" THEN p.s ELSE NatToStr(p.i))))

\* C15: create_role called with a single id s that is not a list issues the
\* same requests as create_role called with the list [s]: one POST to
\* /api/v2/roles whose body is the name and one servers entry, server_id
\* int(s) and permissions str(permissions).  With a list of n ids the body
\* has n entries, in the order of the ids, all with that permissions string.
C15_SingleIdAsOneElementList ==
    Ended("create_role") =>
        LET s == call.args.server_ids
            p == call.args.permissions
            ids == IF s.t = "list" THEN s.l ELSE <<s>>
        IN /\ s.t \in {"int", "str"} =>
                call.reqs = create_role(self, call.args.name, List(<<s>>), p,
                                        TransportError).reqs
           /\ (s.t \in {"int", "str", "list"} /\ \A i \in 1..Len(ids) : Numeric(ids[i])) =>
                /\ Len(call.reqs) = 1
                /\ call.reqs[1].method = "POST"
                /\ call.reqs[1].endpoint = url.origin \o "/api/v2/roles"
                /\ call.reqs[1].json =
                        Dict(("name" :> call.args.name)
                             @@ ("servers" :>
                                    List([i \in 1..Len(ids) |-> RoleEntry(ids[i], p)])))

\* C15 witness: create_role given the single id "2" and the permissions 1010
\* sent one servers entry, server_id 2 and permissions "1010".
C15_Witness ==
    /\ Ended("create_role")
    /\ call.args.server_ids = Str("2")
    /\ call.args.permissions = IntV(1010)
    /\ Len(call.reqs) = 1
    /\ call.reqs[1].json.d["servers"] =
            List(<<Dict(("server_id" :> IntV(2)) @@ ("permissions" :> Str("1010")))>>)

\* The query text of one flag: name=True when it is set, nothing otherwise.
FlagText(name, v) == IF v = Bool(TRUE) THEN <<name \o "=True">> ELSE <<>>

\* C16: get_server_logs GETs /api/v2/servers/{id}/logs with a query made of
\* exactly the flags among file, colors, raw, html that are true, in that
\* order; a flag that is false does not appear, and with all four false the
\* URL has no query at all.
C16_LogsQuery ==
    (Ended("get_server_logs") /\ call.args.server_id.t \in {"int", "str"}) =>
        LET a == call.args
            flags == FlagText("file", a.file) \o FlagText("colors", a.colors)
                        \o FlagText("raw", a.raw) \o FlagText("html", a.html)
            query == CASE Len(flags) = 0 -> ""
                       [] Len(flags) = 1 -> "?" \o flags[1]
                       [] Len(flags) = 2 -> "?" \o flags[1] \o "&" \o flags[2]
                       [] Len(flags) = 3 -> "?" \o flags[1] \o "&" \o flags[2] \o "&" \o flags[3]
                       [] OTHER -> "?" \o flags[1] \o "&" \o flags[2] \o "&" \o flags[3]
                                        \o "&" \o flags[4]
        IN /\ Len(call.reqs) = 1
           /\ call.reqs[1].method = "GET"
           /\ call.reqs[1].params = None_
           /\ call.reqs[1].endpoint =
                url.origin \o "/api/v2/servers/" \o PyStr(a.server_id) \o "/logs" \o query

\* C16 witness: colors and html set, file and raw not.
C16_Witness ==
    /\ Ended("get_server_logs")
    /\ call.args.server_id = IntV(1)
    /\ call.args.file = Bool(FALSE) /\ call.args.colors = Bool(TRUE)
    /\ call.args.raw = Bool(FALSE) /\ call.args.html = Bool(TRUE)
    /\ Len(call.reqs) = 1
    /\ call.reqs[1].endpoint = url.origin \o "/api/v2/servers/1/logs?colors=True&html=True"

SeventeenKeys ==
    {"server_name", "path", "backup_path", "executable", "log_path", "execution_command",
     "auto_start", "auto_start_delay", "crash_detection", "stop_command",
     "executable_update_url", "server_ip", "server_port", "logs_delete_after", "type",
     "show_status", "shutdown_timeout"}

\* C17: modify_server sends a PATCH to /api/v2/servers/{id} whose body has
\* exactly the keys of the input data that are among the 17 allowed keys,
\* each with its input value; every other key is dropped without an error,
\* and the request is issued even when no key is left.
C17_ModifyServerAllowList ==
    (Ended("modify_server") /\ call.args.server_id.t \in {"int", "str"}) =>
        LET data == call.args.data.d
            kept == DOMAIN data \cap SeventeenKeys
        IN /\ Len(call.reqs) = 1
           /\ call.reqs[1].method = "PATCH"
           /\ call.reqs[1].endpoint =
                url.origin \o "/api/v2/servers/" \o PyStr(call.args.server_id)
           /\ IsDict(call.reqs[1].json)
           /\ DOMAIN call.reqs[1].json.d = kept
           /\ \A k \in kept : call.reqs[1].json.d[k] = data[k]
           /\ ~(call.out.k = "raise" /\ call.out.exc \in {"TypeError", "ValueError", "KeyError"})

\* C17 witness: server_name, shutdown_timeout and server_uuid given; the body
\* sent has the first two, unchanged.
C17_Witness ==
    /\ Ended("modify_server")
    /\ call.args.data = Dict(("server_name" :> Str("v")) @@ ("shutdown_timeout" :> IntV(1))
                             @@ ("server_uuid" :> Str("v")))
    /\ Len(call.reqs) = 1
    /\ call.reqs[1].json = Dict(("server_name" :> Str("v")) @@ ("shutdown_timeout" :> IntV(1)))

\* C18: whenever the request primitive returns, it returns a record of
\* exactly the four fields status, data, error and info; status, data and
\* error are those of the answer's body, None for a member the body lacks,
\* and info is the body's info, or its error_data when info is absent or
\* empty.
C18_EnvelopeFields ==
    (Ended("test_foo") /\ call.out.k = "return") =>
        /\ Len(call.reqs) = 1
        /\ call.replies[1].t = "json"
        /\ LET b == call.replies[1].body
               v == call.out.val
           IN /\ DOMAIN v = {"status", "data", "error", "info"}
              /\ v.status = (IF "status" \in DOMAIN b THEN b.status ELSE None_)
              /\ v.data = (IF "data" \in DOMAIN b THEN b.data ELSE None_)
              /\ v.error = (IF "error" \in DOMAIN b THEN b.error ELSE None_)
              /\ v.info = (IF "info" \in DOMAIN b /\ b.info \notin {None_, Str("")}
                           THEN b.info
                           ELSE IF "error_data" \in DOMAIN b THEN b.error_data ELSE None_)

\* C18 witness: the body has an empty info, an error_data and no data; the
\* record returned has the error_data as info and None as data.
C18_Witness ==
    /\ Ended("test_foo")
    /\ call.out.k = "return"
    /\ call.replies[1].t = "json"
    /\ "data" \notin DOMAIN call.replies[1].body
    /\ Get(call.replies[1].body, "info") = Str("")
    /\ Get(call.replies[1].body, "error_data") = Str("more")
    /\ call.out.val.info = Str("more")
    /\ call.out.val.data = None_

\* C19: when modify_role issues its PATCH, the body has name exactly when
\* name was given and servers exactly when server_ids was given.  With
\* server_ids and a permissions string or list, servers has one entry per
\* server id, in order: entry i has the id server_ids[i] and the whole
\* permissions string, or permissions[i] when permissions is a list.
C19_ModifyRoleBody ==
    (Ended("modify_role") /\ Len(call.reqs) = 1) =>
        LET a == call.args
            body == call.reqs[1].json.d
            ids == IF a.server_ids.t = "list" THEN a.server_ids.l ELSE <<a.server_ids>>
        IN /\ call.reqs[1].method = "PATCH"
           /\ call.reqs[1].endpoint = url.origin \o "/api/v2/roles/" \o PyStr(a.role_id)
           /\ DOMAIN body \subseteq {"name", "servers"}
           /\ "name" \in DOMAIN body <=> a.name # None_
           /\ "name" \in DOMAIN body => body["name"] = a.name
           /\ "servers" \in DOMAIN body <=> a.server_ids # None_
           /\ (a.server_ids # None_ /\ a.permissions.t \in {"str", "list"}) =>
                /\ body["servers"].t = "list"
                /\ Len(body["servers"].l) = Len(ids)
                /\ \A i \in 1..Len(ids) :
                        body["servers"].l[i] =
                            Dict(("id" :> ids[i])
                                 @@ ("permissions" :> IF a.permissions.t = "str"
                                                      THEN a.permissions
                                                      ELSE a.permissions.l[i]))

\* C19 witness: two server ids with a list of two different permission
\* strings and no name; the body has servers only, entry i with string i.
C19_Witness ==
    /\ Ended("modify_role")
    /\ call.args.name = None_
    /\ call.args.server_ids = List(<<IntV(1), IntV(2)>>)
    /\ call.args.permissions = List(<<Str("11110000"), Str("00001111")>>)
    /\ Len(call.reqs) = 1
    /\ call.reqs[1].json =
            Dict("servers" :>
                    List(<<Dict(("id" :> IntV(1)) @@ ("permissions" :> Str("11110000"))),
                           Dict(("id" :> IntV(2)) @@ ("permissions" :> Str("00001111")))>>))

\* C20: in every state after a call of get_token, however that call ended,
\* the header mapping is None and the stored token is the one given at
\* construction: every step that ends a get_token call leaves the headers
\* None, no step makes headers that are None anything else, and no step
\* changes the stored token.
C20_HeadersAbsentAfterGetToken ==
    [][/\ call'.op = "get_token" => headers' = None_
       /\ headers = None_ => headers' = None_
       /\ token' = token]_vars

\* C20 witness: get_token called without password and password_path raised
\* ValueError with no request; the headers are None and the stored token is
\* a construction value.
C20_Witness ==
    /\ Ended("get_token")
    /\ call.args.password = None_
    /\ call.args.password_path = None_
    /\ call.reqs = <<>>
    /\ call.out.k = "raise"
    /\ call.out.exc = "ValueError"
    /\ headers = None_
    /\ token \in {"tokA", "tokB"}

\* C21: modify_role called with an int permissions and n >= 1 server ids
\* (a role_id that is an int or str, a name that is a str or None) behaves
\* as with the decimal string of that int: it raises no error of its own and
\* issues one PATCH whose servers list has n entries, entry i with the id
\* server_ids[i] and the whole decimal string as its permissions.
C21_IntPermissionsAsString ==
    (/\ Ended("modify_role")
     /\ call.args.role_id.t \in {"int", "str"}
     /\ call.args.name.t \in {"none", "str"}
     /\ call.args.permissions.t = "int"
     /\ \/ call.args.server_ids.t = "int"
        \/ call.args.server_ids.t = "list" /\ call.args.server_ids.l # <<>>) =>
        LET a == call.args
            ids == IF a.server_ids.t = "list" THEN a.server_ids.l ELSE <<a.server_ids>>
            whole == Str(NatToStr(a.permissions.i))
        IN /\ Len(call.reqs) = 1
           /\ call.reqs = modify_role(self, a.role_id, a.name, a.server_ids, whole,
                                      TransportError).reqs
           /\ call.reqs[1].method = "PATCH"
           /\ call.reqs[1].json.d["servers"] =
                List([i \in 1..Len(ids) |->
                        Dict(("id" :> ids[i]) @@ ("permissions" :> whole))])

====
